---- MODULE Spec2Model ----
(***************************************************************************)
(* A model of litellm/llms/base_llm/base_utils.py:                         *)
(*   - type_to_response_format_param / _dict_to_response_format_helper,    *)
(*     with the inner work-list traversal update_refs, over a heap of      *)
(*     dict and list objects addressed by identity;                        *)
(*   - map_developer_role_to_system_role over a heap of message dicts.     *)
(*                                                                         *)
(* Python strings are sequences of tokens (<<"#","/","d","/","F">> is      *)
(* "#/d/F"), so that str.split and str.format are computed, not assumed.   *)
(* A Python object is a heap cell; id(obj) is the cell's index.            *)
(***************************************************************************)
EXTENDS Integers, Sequences, FiniteSets, TLC

\* Number of nodes below json_schema.schema in the input graphs.
NumNodes == 3
\* Longest message list given to map_developer_role_to_system_role.
MaxMsgs == 3

VARIABLES
    heap,        \* object heap: id -> [kind, items]
    orig,        \* the heap as the caller built it (history variable)
    pc,          \* per call: "off" | "idle" | "loop" | "done", or the
                 \*   exception that ended it: "KeyError" | "AttributeError"
    arg,         \* per call: id of the response_format argument
    tmpl,        \* per call: the ref_template argument
    stack,       \* per call: update_refs' stack of (obj, path)
    visited,     \* per call: update_refs' visited set of ids
    result,      \* per call: id of the returned object, -1 before return
    nrewrites,   \* history: id -> number of assignments to obj["$ref"]
    nvisits,     \* history: id -> number of times the loop body processed obj
    pops,        \* history, per call: number of stack.pop() calls
    reads,       \* history, per call: ids of the objects the call has read
    writes,      \* history, per call: ids of the objects the call has written
    messages,    \* map_developer_role_to_system_role: the argument (ids)
    msgHeap,     \* message objects: id -> message dict
    msgOrig,     \* the message objects as the caller built them (history)
    new_messages,\* the list being built (ids)
    rpc          \* "off" | "loop" | "done"

tvars == <<heap, orig, pc, arg, tmpl, stack, visited, result, nrewrites,
           nvisits, pops, reads, writes>>
rvars == <<messages, msgHeap, msgOrig, new_messages, rpc>>
vars == <<heap, orig, pc, arg, tmpl, stack, visited, result, nrewrites,
          nvisits, pops, reads, writes, messages, msgHeap, msgOrig,
          new_messages, rpc>>

-----------------------------------------------------------------------------
(* Values and heap cells *)

Ptr(n) == [tag |-> "ptr", id |-> n, s |-> <<>>]
Str(s) == [tag |-> "str", id |-> 0, s |-> s]
IntV(n) == [tag |-> "int", id |-> n, s |-> <<>>]
BoolV(b) == [tag |-> "bool", id |-> IF b THEN 1 ELSE 0, s |-> <<>>]
NoneV == [tag |-> "null", id |-> 0, s |-> <<>>]

Free == [kind |-> "free", items |-> <<>>]
Item(k, v) == [k |-> k, v |-> v]

Calls == {1, 2}
\* Input objects: 0 is response_format, 1 its "json_schema" dict, the rest the schema.
NIn == NumNodes + 2
InIds == 0 .. (NIn - 1)
SchemaIds == 2 .. (NIn - 1)
LastId == NIn - 1
NodeIds == 0 .. (3 * NIn - 1)
\* Where call c's deepcopy puts the copy of object n (an input object, or an
\* earlier call's copy of one).
CopyOf(c, n) == c * NIn + (n % NIn)
CopyIds(c) == {CopyOf(c, n) : n \in InIds}

HasKey(node, key) == \E i \in 1 .. Len(node.items) : node.items[i].k = key
KeyIndex(node, key) == CHOOSE i \in 1 .. Len(node.items) : node.items[i].k = key
Get(node, key) == node.items[KeyIndex(node, key)].v
\* obj[key] = v for a key the dict already holds: the key keeps its position.
SetKey(node, key, v) ==
    [node EXCEPT !.items[KeyIndex(node, key)] = Item(key, v)]

SeqMax(S) == CHOOSE x \in S : \A y \in S : y <= x

-----------------------------------------------------------------------------
(* Strings *)

\* ref_path.split("/")[0]
FirstSegment(s) ==
    LET cuts == {i \in 1 .. Len(s) : s[i] = "/"}
    IN  IF cuts = {} THEN s
        ELSE SubSeq(s, 1, (CHOOSE x \in cuts : \A y \in cuts : x <= y) - 1)

\* ref_path.split("/")[-1]
LastSegment(s) ==
    LET cuts == {i \in 1 .. Len(s) : s[i] = "/"}
    IN  IF cuts = {} THEN s ELSE SubSeq(s, SeqMax(cuts) + 1, Len(s))

\* ref_template.format(model=model_name), the template being pre{model}suf
Format(t, model_name) == t.pre \o model_name \o t.suf

NoTemplate == [some |-> FALSE, pre |-> <<>>, suf |-> <<>>]
Template(pre, suf) == [some |-> TRUE, pre |-> pre, suf |-> suf]
\* "p/{model}", "p/{model}/v"
TplBare == Template(<<"p", "/">>, <<>>)
TplVersioned == Template(<<"p", "/">>, <<"/", "v">>)
\* "q{model}"
TplGlued == Template(<<"q">>, <<>>)
Templates == {TplBare, TplVersioned, TplGlued}

JsonSchema == <<"json_schema">>
Text == <<"text">>

-----------------------------------------------------------------------------
(* The caller's input: a response_format dict and the graph under it *)

OptItem(cond, k, v) == IF cond THEN <<Item(k, v)>> ELSE <<>>
IdxKey(i) == <<"0", "1", "2", "3">>[i]
\* A list object: its items are keyed by position, as enumerate() gives them.
ListItems(vs) == [i \in 1 .. Len(vs) |-> Item(IdxKey(i), vs[i])]

\* Component names and "$ref" values of the inputs.
Name(i) == IF i = 2 THEN "G" ELSE "F"
SlashRef(i) == <<"#", "/", "d", "/", Name(i)>>
BareRef(i) == <<Name(i)>>
TrailRef == <<"#", "/", "d", "/">>
\* A "$ref" that is not a string: a number, a mapping (a property named "$ref"), null.
BadRef(i) ==
    CASE i % 3 = 2 -> IntV(5)
      [] i % 3 = 0 -> Ptr(2)
      [] OTHER -> NoneV

RefChoices(i) ==
    IF i = 2 THEN {"none", "slash", "bare", "trail", "bad", "list"}
    ELSE IF i = 3 THEN {"none", "slash", "bad", "list"}
    ELSE {"none", "slash", "bad"}
NoExtra == [on |-> FALSE, src |-> 2, dst |-> 2, first |-> FALSE]
Extras ==
    {NoExtra} \cup
    [on : {TRUE}, src : SchemaIds, dst : 1 .. LastId, first : BOOLEAN]
\* "plain": {schema, name, strict}; "ref": json_schema has a "$ref" of its
\* own; "defs": the last node hangs under json_schema["$defs"], not under
\* the schema.
Envs == {"plain", "ref", "defs"}
RefAssignments ==
    {f \in [SchemaIds -> {"none", "slash", "bare", "trail", "bad", "list"}] :
        \A i \in SchemaIds : f[i] \in RefChoices(i)}
\* The inputs: every envelope with every extra edge for type "json_schema",
\* a mapping of another type, and a response_format without "json_schema"
\* (env "nojs"). json_schema.schema, where present, is a dict or a list.
Params ==
    [refc : RefAssignments, extra : Extras, env : Envs, ty : {JsonSchema}]
    \cup [refc : RefAssignments, extra : {NoExtra}, env : {"plain"}, ty : {Text}]
    \cup [refc : RefAssignments, extra : {NoExtra}, env : {"nojs"}, ty : {JsonSchema}]

RefValue(p, i) ==
    CASE p.refc[i] = "slash" -> Str(SlashRef(i))
      [] p.refc[i] = "bare" -> Str(BareRef(i))
      [] p.refc[i] = "trail" -> Str(TrailRef)
      [] OTHER -> BadRef(i)

SchemaChildren(p, i) ==
    LET a == OptItem(i < LastId /\ ~(p.env = "defs" /\ i = LastId - 1),
                     "a", Ptr(i + 1))
        b == OptItem(p.extra.on /\ p.extra.src = i, "b", Ptr(p.extra.dst))
    IN  IF p.extra.first THEN b \o a ELSE a \o b

InputNode(p, n) ==
    IF n = 0 THEN
        [kind |-> "dict",
         items |-> <<Item("type", Str(p.ty))>>
                   \o OptItem(p.env # "nojs", "json_schema", Ptr(1))]
    ELSE IF n = 1 THEN
        [kind |-> "dict",
         items |-> <<Item("schema", Ptr(2)), Item("name", Str(<<"N">>)),
                     Item("strict", BoolV(TRUE))>>
                   \o OptItem(p.env = "ref", "$ref", Str(SlashRef(1)))
                   \o OptItem(p.env = "defs", "$defs", Ptr(LastId))]
    ELSE IF p.refc[n] = "list" THEN
        [kind |-> "list",
         items |-> ListItems(
             [i \in 1 .. Len(SchemaChildren(p, n)) |-> SchemaChildren(p, n)[i].v]
             \o <<Str(<<"T">>)>>)]
    ELSE
        [kind |-> "dict",
         items |-> <<Item("title", Str(<<"T">>))>>
                   \o OptItem(p.refc[n] # "none", "$ref", RefValue(p, n))
                   \o SchemaChildren(p, n)]

InputHeap(p) == [n \in NodeIds |-> IF n \in InIds THEN InputNode(p, n) ELSE Free]

-----------------------------------------------------------------------------
(* copy.deepcopy *)

Succ(h, n) == {h[n].items[i].v.id :
                  i \in {j \in 1 .. Len(h[n].items) : h[n].items[j].v.tag = "ptr"}}

RECURSIVE ReachFrom(_, _, _)
ReachFrom(h, seen, frontier) ==
    IF frontier = {} THEN seen
    ELSE LET next == UNION {Succ(h, n) : n \in frontier}
         IN  ReachFrom(h, seen \cup frontier, next \ (seen \cup frontier))
\* Every dict and list object reachable from root, root included.
Reach(h, root) == ReachFrom(h, {}, {root})

\* A value of the copy: a leaf is itself, a reference goes to the target's copy.
Relocate(c, v) == IF v.tag = "ptr" THEN Ptr(CopyOf(c, v.id)) ELSE v
CopyNode(c, node) ==
    [node EXCEPT !.items = [i \in 1 .. Len(node.items) |->
                               Item(node.items[i].k, Relocate(c, node.items[i].v))]]

\* copy.copy(response_format): a new top-level dict over the same children.
ShallowCopy(h, root, c) ==
    [n \in NodeIds |-> IF n = CopyOf(c, root) THEN h[root] ELSE h[n]]

\* copy.deepcopy(response_format): one new object per object reachable from
\* root (the memo keeps shared and cyclic structure), nothing shared with h.
DeepCopy(h, root, c) ==
    LET live == Reach(h, root)
    IN  [n \in NodeIds |->
            IF \E m \in live : CopyOf(c, m) = n
            THEN CopyNode(c, h[CHOOSE m \in live : CopyOf(c, m) = n])
            ELSE h[n]]

-----------------------------------------------------------------------------
(* _dict_to_response_format_helper and update_refs *)

\* response_format.get("type")
TypeOf(h, m) == IF HasKey(h[m], "type") THEN Get(h[m], "type") ELSE NoneV

\* ref_template is not None
TemplateOnly(h, m, t) == t.some

\* ref_template is not None and response_format.get("type") == "json_schema"
TakesRewritePath(h, m, t) == t.some /\ TypeOf(h, m) = Str(JsonSchema)

\* No visited check at all.
NeverVisited(c, obj) == FALSE

\* obj_id in visited
IsVisited(c, obj) == obj \in visited[c]

\* isinstance(v, (dict, list))
IsContainer(h, v) == v.tag = "ptr" /\ h[v.id].kind \in {"dict", "list"}

\* for k, v in obj.items() / for i, item in enumerate(obj):
\*     if isinstance(v, (dict, list)): stack.append((v, path + [k]))
RECURSIVE Pushes(_, _, _, _)
Pushes(h, node, path, i) ==
    IF i > Len(node.items) THEN <<>>
    ELSE (IF IsContainer(h, node.items[i].v)
          THEN <<[obj |-> node.items[i].v.id, path |-> path \o <<node.items[i].k>>]>>
          ELSE <<>>)
         \o Pushes(h, node, path, i + 1)

Top(c) == stack[c][Len(stack[c])]
Rest(c) == SubSeq(stack[c], 1, Len(stack[c]) - 1)

\* obj["$ref"] = ref_template.format(model=ref_path.split("/")[-1])
Rewritten(node, t) ==
    SetKey(node, "$ref", Str(Format(t, LastSegment(Get(node, "$ref").s))))

\* schema = modified_format
WholeFormat(h, modified_format) == modified_format

\* schema = modified_format["json_schema"]["schema"]
SchemaRoot(h, modified_format) ==
    Get(h[Get(h[modified_format], "json_schema").id], "schema").id

\* modified_format["json_schema"]["schema"] finds no such key.
SchemaLookupFails(h, modified_format) ==
    IF HasKey(h[modified_format], "json_schema")
    THEN ~HasKey(h[Get(h[modified_format], "json_schema").id], "schema")
    ELSE TRUE

\* The branch of line 87 not taken: the argument itself is returned.
CallPassthrough(c) ==
    /\ pc[c] = "idle"
    /\ ~TakesRewritePath(heap, arg[c], tmpl[c])
    /\ pc' = [pc EXCEPT ![c] = "done"]
    /\ result' = [result EXCEPT ![c] = arg[c]]
    /\ reads' = [reads EXCEPT ![c] = @ \cup {arg[c]}]
    /\ UNCHANGED <<heap, orig, arg, tmpl, stack, visited, nrewrites, nvisits, pops, writes>>
    /\ UNCHANGED rvars

\* Lines 89-95: deep copy, schema = modified_format["json_schema"]["schema"],
\* stack = [(schema, [])], visited = set().
CallRewrite(c) ==
    /\ pc[c] = "idle"
    /\ TakesRewritePath(heap, arg[c], tmpl[c])
    /\ ~SchemaLookupFails(heap, arg[c])
    /\ LET h2 == DeepCopy(heap, arg[c], c)
           modified_format == CopyOf(c, arg[c])
           js == Get(h2[modified_format], "json_schema").id
           schema == SchemaRoot(h2, modified_format)
       IN  /\ heap' = h2
           /\ stack' = [stack EXCEPT ![c] = <<[obj |-> schema, path |-> <<>>]>>]
           /\ reads' = [reads EXCEPT ![c] = @ \cup Reach(heap, arg[c]) \cup {modified_format, js}]
           /\ writes' = [writes EXCEPT ![c] = @ \cup {n \in NodeIds : h2[n] # heap[n]}]
    /\ visited' = [visited EXCEPT ![c] = {}]
    /\ pc' = [pc EXCEPT ![c] = "loop"]
    /\ UNCHANGED <<orig, arg, tmpl, result, nrewrites, nvisits, pops>>
    /\ UNCHANGED rvars

\* Lines 89-90: deep copy, then the subscript raises KeyError.
CallKeyError(c) ==
    /\ pc[c] = "idle"
    /\ TakesRewritePath(heap, arg[c], tmpl[c])
    /\ SchemaLookupFails(heap, arg[c])
    /\ heap' = DeepCopy(heap, arg[c], c)
    /\ reads' = [reads EXCEPT ![c] = @ \cup Reach(heap, arg[c]) \cup {CopyOf(c, arg[c])}]
    /\ writes' = [writes EXCEPT ![c] = @ \cup {n \in NodeIds : heap'[n] # heap[n]}]
    /\ pc' = [pc EXCEPT ![c] = "KeyError"]
    /\ UNCHANGED <<orig, arg, tmpl, stack, visited, result, nrewrites, nvisits, pops>>
    /\ UNCHANGED rvars

\* Lines 98-102: pop an entry whose object is already in visited; continue.
PopVisited(c) ==
    /\ pc[c] = "loop"
    /\ stack[c] # <<>>
    /\ IsVisited(c, Top(c).obj)
    /\ stack' = [stack EXCEPT ![c] = Rest(c)]
    /\ pops' = [pops EXCEPT ![c] = @ + 1]
    /\ UNCHANGED <<heap, orig, pc, arg, tmpl, visited, result, nrewrites, nvisits, reads, writes>>
    /\ UNCHANGED rvars

\* Lines 98-113: pop a dict not yet visited, rewrite its "$ref" if it has
\* one (a string), push its dict and list values.
VisitDict(c) ==
    /\ pc[c] = "loop"
    /\ stack[c] # <<>>
    /\ ~IsVisited(c, Top(c).obj)
    /\ LET obj == Top(c).obj
           node == heap[obj]
           has == HasKey(node, "$ref")
       IN  /\ node.kind = "dict"
           /\ has => Get(node, "$ref").tag = "str"
           /\ LET node2 == IF has THEN Rewritten(node, tmpl[c]) ELSE node
              IN  /\ heap' = [heap EXCEPT ![obj] = node2]
                  /\ stack' = [stack EXCEPT ![c] =
                                  Rest(c) \o Pushes(heap', node2, Top(c).path, 1)]
           /\ nrewrites' = [nrewrites EXCEPT ![obj] = IF has THEN @ + 1 ELSE @]
           /\ writes' = [writes EXCEPT ![c] = IF has THEN @ \cup {obj} ELSE @]
           /\ reads' = [reads EXCEPT ![c] = @ \cup {obj}]
           /\ visited' = [visited EXCEPT ![c] = @ \cup {obj}]
    /\ pops' = [pops EXCEPT ![c] = @ + 1]
    /\ nvisits' = [nvisits EXCEPT ![Top(c).obj] = @ + 1]
    /\ UNCHANGED <<orig, pc, arg, tmpl, result>>
    /\ UNCHANGED rvars

\* Lines 98-108: pop a dict whose "$ref" is not a string: ref_path.split
\* raises AttributeError, which leaves update_refs and the helper.
VisitRaises(c) ==
    /\ pc[c] = "loop"
    /\ stack[c] # <<>>
    /\ ~IsVisited(c, Top(c).obj)
    /\ heap[Top(c).obj].kind = "dict"
    /\ HasKey(heap[Top(c).obj], "$ref")
    /\ Get(heap[Top(c).obj], "$ref").tag # "str"
    /\ stack' = [stack EXCEPT ![c] = Rest(c)]
    /\ visited' = [visited EXCEPT ![c] = @ \cup {Top(c).obj}]
    /\ reads' = [reads EXCEPT ![c] = @ \cup {Top(c).obj}]
    /\ pops' = [pops EXCEPT ![c] = @ + 1]
    /\ pc' = [pc EXCEPT ![c] = "AttributeError"]
    /\ nvisits' = [nvisits EXCEPT ![Top(c).obj] = @ + 1]
    /\ UNCHANGED <<heap, orig, arg, tmpl, result, nrewrites, writes>>
    /\ UNCHANGED rvars

\* Lines 98-103, 115-118: pop a list not yet visited, push its dict and list items.
VisitList(c) ==
    /\ pc[c] = "loop"
    /\ stack[c] # <<>>
    /\ ~IsVisited(c, Top(c).obj)
    /\ heap[Top(c).obj].kind = "list"
    /\ stack' = [stack EXCEPT ![c] =
                    Rest(c) \o Pushes(heap, heap[Top(c).obj], Top(c).path, 1)]
    /\ visited' = [visited EXCEPT ![c] = @ \cup {Top(c).obj}]
    /\ reads' = [reads EXCEPT ![c] = @ \cup {Top(c).obj}]
    /\ pops' = [pops EXCEPT ![c] = @ + 1]
    /\ nvisits' = [nvisits EXCEPT ![Top(c).obj] = @ + 1]
    /\ UNCHANGED <<heap, orig, pc, arg, tmpl, result, nrewrites, writes>>
    /\ UNCHANGED rvars

\* Lines 97, 120-121: the stack is empty; return modified_format.
Return(c) ==
    /\ pc[c] = "loop"
    /\ stack[c] = <<>>
    /\ pc' = [pc EXCEPT ![c] = "done"]
    /\ result' = [result EXCEPT ![c] = CopyOf(c, arg[c])]
    /\ UNCHANGED <<heap, orig, arg, tmpl, stack, visited, nrewrites, nvisits, pops, reads,
                   writes>>
    /\ UNCHANGED rvars

-----------------------------------------------------------------------------
(* One call of type_to_response_format_param on a dict *)

RoleOff ==
    /\ messages = <<>>
    /\ msgHeap = <<>>
    /\ msgOrig = <<>>
    /\ new_messages = <<>>
    /\ rpc = "off"

InitCommon ==
    /\ orig = heap
    /\ stack = [c \in Calls |-> <<>>]
    /\ visited = [c \in Calls |-> {}]
    /\ result = [c \in Calls |-> -1]
    /\ nrewrites = [n \in NodeIds |-> 0]
    /\ nvisits = [n \in NodeIds |-> 0]
    /\ arg = [c \in Calls |-> 0]
    /\ pops = [c \in Calls |-> 0]
    /\ reads = [c \in Calls |-> {}]
    /\ writes = [c \in Calls |-> {}]
    /\ RoleOff

Init ==
    /\ \E p \in Params : heap = InputHeap(p)
    /\ InitCommon
    /\ pc = [c \in Calls |-> IF c = 1 THEN "idle" ELSE "off"]
    /\ \E t \in Templates \cup {NoTemplate} :
           /\ tmpl = [c \in Calls |-> IF c = 1 THEN t ELSE NoTemplate]
           /\ TypeOf(heap, 0) = Str(Text) => t = TplBare

Next ==
    \E c \in Calls :
        \/ CallPassthrough(c)
        \/ CallRewrite(c)
        \/ CallKeyError(c)
        \/ PopVisited(c)
        \/ VisitDict(c)
        \/ VisitRaises(c)
        \/ VisitList(c)
        \/ Return(c)

Spec == Init /\ [][Next]_vars

-----------------------------------------------------------------------------
(* Properties of one call (specification Spec) *)

\* The call was given a template and a response_format of type "json_schema".
OnRewritePath(c) == tmpl[c].some /\ TypeOf(orig, 0) = Str(JsonSchema)
Returned(c) == pc[c] = "done"
\* The input objects reachable from json_schema.schema.
SchemaReach == Reach(orig, 2)
HasStrRef(node) ==
    node.kind = "dict" /\ HasKey(node, "$ref") /\ Get(node, "$ref").tag = "str"
InputUnchanged == \A n \in InIds : heap[n] = orig[n]

\* The bare component name of a reference: its longest suffix without "/".
Suffix(s, k) == SubSeq(s, Len(s) - k + 1, Len(s))
ComponentName(s) ==
    CHOOSE t \in {Suffix(s, k) : k \in 0 .. Len(s)} :
        /\ \A i \in 1 .. Len(t) : t[i] # "/"
        /\ Len(t) = Len(s) \/ s[Len(s) - Len(t)] = "/"

\* C1: the caller's objects keep their keys, elements and values at every
\* step of a call, and a value returned by the rewrite path shares no dict
\* or list object with the input.
C1_InputNotMutated ==
    /\ InputUnchanged
    /\ \A c \in Calls :
           (Returned(c) /\ OnRewritePath(c)) =>
               Reach(heap, result[c]) \cap InIds = {}

\* C1 witness: a rewriting call has returned, on an input with a shared or
\* cyclic edge, and the copy's "$ref" differs from the input's.
C1_Witness ==
    /\ Returned(1) /\ OnRewritePath(1)
    /\ \E n \in SchemaIds : HasKey(orig[n], "b")
    /\ \E n \in SchemaIds :
           /\ HasStrRef(orig[n])
           /\ Get(heap[CopyOf(1, n)], "$ref") # Get(orig[n], "$ref")

\* C2: when the rewrite path returns, every dict reachable from
\* json_schema.schema of the result that carries a string "$ref" holds the
\* template applied to the component name of the ORIGINAL "$ref" (whatever
\* the order of the dict's keys, hence of the stack).
C2_AllRefsRewritten ==
    \A c \in Calls :
        (Returned(c) /\ OnRewritePath(c)) =>
            \A n \in Reach(heap, CopyOf(c, 2)) :
                HasStrRef(heap[n]) =>
                    /\ HasStrRef(orig[n % NIn])
                    /\ Get(heap[n], "$ref").s =
                           tmpl[c].pre
                           \o ComponentName(Get(orig[n % NIn], "$ref").s)
                           \o tmpl[c].suf

\* C2 witness: the call returned and rewrote the "$ref" of a dict that is
\* an element of a list, and of a dict whose "$ref" has no "/".
C2_Witness ==
    /\ Returned(1) /\ OnRewritePath(1)
    /\ orig[3].kind = "list"
    /\ nrewrites[CopyOf(1, 4)] = 1
    /\ HasStrRef(orig[2]) /\ Get(orig[2], "$ref").s = BareRef(2)
    /\ Get(heap[CopyOf(1, 2)], "$ref").s # BareRef(2)

\* C3: no object is processed by the loop body more than once and no "$ref"
\* is assigned more than once; when the call returns, every object
\* reachable from the schema was processed exactly once (equal contents do
\* not merge two objects) and each "$ref" was assigned exactly once.
C3_OncePerIdentity ==
    /\ \A n \in NodeIds : nvisits[n] <= 1 /\ nrewrites[n] <= 1
    /\ \A c \in Calls :
           (Returned(c) /\ OnRewritePath(c)) =>
               \A n \in SchemaReach :
                   /\ nvisits[CopyOf(c, n)] = 1
                   /\ nrewrites[CopyOf(c, n)] =
                          (IF orig[n].kind = "dict" /\ HasKey(orig[n], "$ref")
                           THEN 1 ELSE 0)

Parents(h, n) == {m \in NodeIds : h[m].kind # "free" /\ n \in Succ(h, m)}

\* C3 witness: a dict with a "$ref" that two different reachable objects
\* point to was rewritten once, under a template that is not idempotent.
C3_Witness ==
    /\ Returned(1) /\ OnRewritePath(1) /\ tmpl[1] = TplVersioned
    /\ \E n \in SchemaIds :
           /\ Cardinality(Parents(orig, n) \cap SchemaReach) >= 2
           /\ nrewrites[CopyOf(1, n)] = 1
           /\ Get(heap[CopyOf(1, n)], "$ref").s =
                  <<"p", "/", Name(n), "/", "v">>

\* Two distinct reachable dicts with equal contents, each rewritten once.
EqualTwinsRewritten ==
    /\ Returned(1) /\ OnRewritePath(1)
    /\ \E n, m \in SchemaReach :
           /\ n # m /\ orig[n] = orig[m] /\ HasStrRef(orig[n])
           /\ nrewrites[CopyOf(1, n)] = 1 /\ nrewrites[CopyOf(1, m)] = 1

\* C4 (as claimed): whenever the traversal has stopped, by return or by an
\* exception, its work list is empty.
C4_StopsWithEmptyWorkList ==
    \A c \in Calls : pc[c] \in {"done", "AttributeError"} => stack[c] = <<>>

\* Number of references to dicts and lists held by the objects of S.
RECURSIVE EdgeCount(_, _)
EdgeCount(h, S) ==
    IF S = {} THEN 0
    ELSE LET n == CHOOSE x \in S : TRUE
         IN  Cardinality({j \in 1 .. Len(h[n].items) : h[n].items[j].v.tag = "ptr"})
             + EdgeCount(h, S \ {n})

\* What the code does guarantee: a traversal that has not stopped can take
\* a step, every pop shortens what is left to do, and the pops never exceed
\* one plus the number of edges of the graph under the schema.
TraversalBounded ==
    \A c \in Calls :
        /\ pops[c] <= 1 + EdgeCount(orig, SchemaReach)
        /\ pc[c] = "loop" => ENABLED Next
        /\ pc[c] = "loop" =>
               Len(stack[c]) + pops[c] <= 1 + EdgeCount(orig, SchemaReach)

\* C5: in the value the rewrite path returns, every object has the kind,
\* the keys (in order) and the length of the object it copies; every value
\* other than the "$ref" of a dict reachable from json_schema.schema is the
\* original leaf, or the copy of the original's target (same sharing and
\* cycles); nothing else was allocated.
C5_Frame ==
    \A c \in Calls :
        (Returned(c) /\ OnRewritePath(c)) =>
            /\ \A n \in InIds :
                   LET cp == heap[CopyOf(c, n)]
                       o == orig[n]
                   IN  /\ cp.kind = o.kind
                       /\ Len(cp.items) = Len(o.items)
                       /\ \A i \in 1 .. Len(o.items) :
                              /\ cp.items[i].k = o.items[i].k
                              /\ \/ /\ o.items[i].k = "$ref"
                                    /\ o.kind = "dict"
                                    /\ n \in SchemaReach
                                 \/ cp.items[i].v = Relocate(c, o.items[i].v)
            /\ \A m \in NodeIds \ (InIds \cup CopyIds(c)) : heap[m] = Free

\* C5 witness: the call returned; json_schema carries a "$ref" of its own
\* that the schema does not reach and that is still the input's, while a
\* "$ref" under the schema was rewritten.
C5_Witness ==
    /\ Returned(1) /\ OnRewritePath(1)
    /\ HasKey(orig[1], "$ref") /\ 1 \notin SchemaReach
    /\ Get(heap[CopyOf(1, 1)], "$ref") = Get(orig[1], "$ref")
    /\ \E n \in SchemaReach : nrewrites[CopyOf(1, n)] = 1

\* C6: a call without a template, or on a mapping whose type is not
\* "json_schema", returns its argument itself, and the heap is as the caller
\* built it: no copy was made and no "$ref" was rewritten.
C6_Passthrough ==
    \A c \in Calls :
        (Returned(c) /\ ~OnRewritePath(c)) => (result[c] = 0 /\ heap = orig)

\* C6 witness: a call with a template, on a mapping of type "text" that
\* holds a "$ref", has returned.
C6_Witness ==
    /\ Returned(1) /\ tmpl[1].some /\ TypeOf(orig, 0) = Str(Text)
    /\ \E n \in SchemaIds : HasStrRef(orig[n])

\* The other passthrough case: no template, type "json_schema".
NoTemplateReturned ==
    /\ Returned(1) /\ ~tmpl[1].some /\ TypeOf(orig, 0) = Str(JsonSchema)
    /\ \E n \in SchemaIds : HasStrRef(orig[n])

\* C7 (as claimed): the rewriter never ends with an exception raised on a
\* "$ref" value.
C7_NeverRaises == \A c \in Calls : pc[c] # "AttributeError"

\* The part of C7 the code does: a "$ref" without "/" is its own name.
BareRefRewritten ==
    \A c \in Calls :
        (Returned(c) /\ OnRewritePath(c) /\ HasStrRef(orig[2])
         /\ Get(orig[2], "$ref").s = BareRef(2)) =>
            Get(heap[CopyOf(c, 2)], "$ref").s =
                tmpl[c].pre \o BareRef(2) \o tmpl[c].suf

-----------------------------------------------------------------------------
(* Two calls on the same response_format object, their steps interleaved.   *)
(* deepcopy is one step: it only reads the argument's graph, which no step  *)
(* of either call writes.                                                   *)

ConcRefAssignments ==
    {f \in RefAssignments :
        /\ f[2] \in {"none", "slash", "bare"}
        /\ f[LastId] \in {"slash", "bad"}
        /\ \A i \in SchemaIds \ {2, LastId} : f[i] \in {"slash", "list"}}
ConcParams ==
    [refc : ConcRefAssignments, extra : {e \in Extras : ~e.first},
     env : {"plain"}, ty : {JsonSchema}]
    \cup [refc : ConcRefAssignments, extra : {NoExtra}, env : {"nojs"},
          ty : {JsonSchema}]

InitConc ==
    /\ \E p \in ConcParams : heap = InputHeap(p)
    /\ InitCommon
    /\ pc = [c \in Calls |-> "idle"]
    /\ \E t \in {TplBare, TplVersioned, NoTemplate} :
           tmpl = [c \in Calls |-> IF c = 1 THEN TplBare ELSE t]

SpecConc == InitConc /\ [][Next]_vars

\* What a call running alone returns for input object n (C2 and C5 under Spec).
AloneResult(c, n) ==
    IF n \in SchemaReach /\ HasStrRef(orig[n])
    THEN SetKey(CopyNode(c, orig[n]), "$ref",
                Str(tmpl[c].pre \o ComponentName(Get(orig[n], "$ref").s)
                    \o tmpl[c].suf))
    ELSE CopyNode(c, orig[n])
\* The exception a call running alone ends with, "done" if it returns.
AloneOutcome(c) ==
    IF ~OnRewritePath(c) THEN "done"
    ELSE IF ~HasKey(orig[0], "json_schema") THEN "KeyError"
    ELSE IF \E n \in SchemaReach :
                /\ orig[n].kind = "dict" /\ HasKey(orig[n], "$ref")
                /\ Get(orig[n], "$ref").tag # "str"
         THEN "AttributeError"
    ELSE "done"

ReturnsAloneResult(c) ==
    /\ pc[c] \in {"done", "KeyError", "AttributeError"} => pc[c] = AloneOutcome(c)
    /\ (Returned(c) /\ OnRewritePath(c)) =>
           /\ result[c] = CopyOf(c, 0)
           /\ \A n \in InIds : heap[CopyOf(c, n)] = AloneResult(c, n)
    /\ (Returned(c) /\ ~OnRewritePath(c)) => result[c] = 0

\* The closed form is what one call alone produces (checked under Spec).
AloneResultIsSequential == \A c \in Calls : ReturnsAloneResult(c)

\* C8: in every interleaving of two calls on one input, each call ends as it
\* would alone (same returned value, or the same exception), the input is
\* unchanged, and no call writes an object another call reads.
C8_ConcurrentCallsIsolated ==
    /\ InputUnchanged
    /\ \A c \in Calls : ReturnsAloneResult(c)
    /\ \A c, d \in Calls : c # d => writes[c] \cap reads[d] = {}

\* C8 witness: both calls took the rewrite path with different templates on
\* one input, both returned, and their copies of one "$ref" differ.
C8_Witness ==
    /\ Returned(1) /\ Returned(2)
    /\ OnRewritePath(1) /\ OnRewritePath(2) /\ tmpl[1] # tmpl[2]
    /\ \E n \in SchemaIds :
           /\ nrewrites[CopyOf(1, n)] = 1 /\ nrewrites[CopyOf(2, n)] = 1
           /\ heap[CopyOf(1, n)].items # heap[CopyOf(2, n)].items

\* Both traversals under way at once, each with a rewrite done and work left.
BothMidTraversal ==
    /\ pc[1] = "loop" /\ pc[2] = "loop"
    /\ stack[1] # <<>> /\ stack[2] # <<>>
    /\ \E n, m \in SchemaIds :
           nrewrites[CopyOf(1, n)] = 1 /\ nrewrites[CopyOf(2, m)] = 1

-----------------------------------------------------------------------------
(* normalize(normalize(m, t), t): a second call on the first call's result *)

Chain ==
    /\ pc[1] = "done"
    /\ pc[2] = "off"
    /\ pc' = [pc EXCEPT ![2] = "idle"]
    /\ arg' = [arg EXCEPT ![2] = result[1]]
    /\ tmpl' = [tmpl EXCEPT ![2] = tmpl[1]]
    /\ UNCHANGED <<heap, orig, stack, visited, result, nrewrites, nvisits, pops, reads,
                   writes>>
    /\ UNCHANGED rvars

NextTwice == Next \/ Chain

SpecTwice == Init /\ [][NextTwice]_vars

\* The template is "<prefix>/{model}": the slot is its whole last segment.
BareSlot(t) ==
    /\ t.some /\ t.suf = <<>>
    /\ t.pre # <<>> /\ t.pre[Len(t.pre)] = "/"

\* The second call's result equals the first's, object for object.
SameResults ==
    IF OnRewritePath(1)
    THEN /\ result[2] = CopyOf(2, result[1])
         /\ \A n \in InIds : heap[CopyOf(2, n)] = CopyNode(2, heap[CopyOf(1, n)])
    ELSE result[2] = result[1]

\* C9: under a template "<prefix>/{model}", normalizing the result of a
\* normalization again gives an equal value.
C9_IdempotentForBareSlot ==
    (Returned(1) /\ Returned(2) /\ BareSlot(tmpl[1])) => SameResults

\* C9 witness: both calls returned under "p/{model}" and a "$ref" with a
\* path ("#/d/F") was rewritten by each.
C9_Witness ==
    /\ Returned(1) /\ Returned(2) /\ tmpl[1] = TplBare /\ OnRewritePath(1)
    /\ \E n \in SchemaIds :
           /\ HasStrRef(orig[n]) /\ Get(orig[n], "$ref").s = SlashRef(n)
           /\ nrewrites[CopyOf(1, n)] = 1 /\ nrewrites[CopyOf(2, n)] = 1

\* The second half of C9: under "p/{model}/v" the second call changes the result.
VersionedSecondPassDiffers ==
    /\ Returned(1) /\ Returned(2) /\ tmpl[1] = TplVersioned /\ ~SameResults

-----------------------------------------------------------------------------
(* map_developer_role_to_system_role *)

NoMsg == [role |-> "free"]
Roles == {"developer", "user", "system"}
Contents == {"x", "y"}
\* Message dicts: role and content, some with a further key.
Messages ==
    [role : Roles, content : Contents]
    \cup [role : Roles, content : Contents, name : {"n"}]

MsgIds == 1 .. (2 * MaxMsgs)
\* The id of the dict built for position i.
NewId(i) == MaxMsgs + i

\* m itself, its role left as it is.
KeptMessage(m) == m

\* {"role": "system", "content": m["content"]}
SystemMessage(m) == [role |-> "system", content |-> m.content]

InitRole ==
    /\ heap = [n \in NodeIds |-> Free]
    /\ orig = heap
    /\ pc = [c \in Calls |-> "off"]
    /\ arg = [c \in Calls |-> 0]
    /\ tmpl = [c \in Calls |-> NoTemplate]
    /\ stack = [c \in Calls |-> <<>>]
    /\ visited = [c \in Calls |-> {}]
    /\ result = [c \in Calls |-> -1]
    /\ nrewrites = [n \in NodeIds |-> 0]
    /\ nvisits = [n \in NodeIds |-> 0]
    /\ pops = [c \in Calls |-> 0]
    /\ reads = [c \in Calls |-> {}]
    /\ writes = [c \in Calls |-> {}]
    /\ \E len \in 0 .. MaxMsgs :
           /\ messages = [i \in 1 .. len |-> i]
           /\ \E ms \in [1 .. len -> Messages] :
                  msgHeap = [i \in MsgIds |-> IF i <= len THEN ms[i] ELSE NoMsg]
    /\ msgOrig = [list |-> messages, heap |-> msgHeap]
    /\ new_messages = <<>>
    /\ rpc = "loop"

\* The message the for loop is at.
CurrentMsg == messages[Len(new_messages) + 1]

\* Lines 168-170: m["role"] == "developer": append a new dict.
AppendSystem ==
    /\ rpc = "loop"
    /\ Len(new_messages) < Len(messages)
    /\ msgHeap[CurrentMsg].role = "developer"
    /\ LET i == Len(new_messages) + 1
       IN  /\ msgHeap' = [msgHeap EXCEPT ![NewId(i)] = SystemMessage(msgHeap[CurrentMsg])]
           /\ new_messages' = Append(new_messages, NewId(i))
    /\ UNCHANGED <<messages, msgOrig, rpc>>
    /\ UNCHANGED tvars

\* Lines 168-172: any other role: append m itself.
AppendSame ==
    /\ rpc = "loop"
    /\ Len(new_messages) < Len(messages)
    /\ msgHeap[CurrentMsg].role # "developer"
    /\ new_messages' = Append(new_messages, CurrentMsg)
    /\ UNCHANGED <<messages, msgHeap, msgOrig, rpc>>
    /\ UNCHANGED tvars

\* Line 173: return new_messages.
ReturnMessages ==
    /\ rpc = "loop"
    /\ Len(new_messages) = Len(messages)
    /\ rpc' = "done"
    /\ UNCHANGED <<messages, msgHeap, msgOrig, new_messages>>
    /\ UNCHANGED tvars

NextRole == AppendSystem \/ AppendSame \/ ReturnMessages

SpecRole == InitRole /\ [][NextRole]_vars

\* C10: the returned list has the input's length; at each position a
\* developer message is answered by another object with role "system" and
\* the same content, any other message by the input's own object; no
\* returned message has role "developer"; the input list and its message
\* objects are at every step what the caller passed.
C10_RoleRemap ==
    /\ messages = msgOrig.list
    /\ \A i \in 1 .. Len(messages) : msgHeap[messages[i]] = msgOrig.heap[messages[i]]
    /\ rpc = "done" =>
           /\ Len(new_messages) = Len(messages)
           /\ \A i \in 1 .. Len(messages) :
                  LET m == msgOrig.heap[messages[i]]
                      out == msgHeap[new_messages[i]]
                  IN  /\ out.role # "developer"
                      /\ IF m.role = "developer"
                         THEN /\ out.role = "system"
                              /\ out.content = m.content
                              /\ new_messages[i] # messages[i]
                         ELSE new_messages[i] = messages[i]

\* C10 witness: a list with a developer message carrying a further key,
\* followed by a message of another role, has been mapped.
C10_Witness ==
    /\ rpc = "done"
    /\ Len(messages) >= 2
    /\ msgOrig.heap[messages[1]] = [role |-> "developer", content |-> "x", name |-> "n"]
    /\ msgOrig.heap[messages[2]].role = "user"
    /\ msgHeap[new_messages[1]] = [role |-> "system", content |-> "x"]
    /\ new_messages[2] = messages[2]

====
